---- MODULE Spec2Model ----
(***************************************************************************)
(* A model of dividend_ai.py: calculate_cagr, compute_forecast,            *)
(* compute_rsi, and the risk and momentum blocks of the main output.       *)
(*                                                                         *)
(* Numbers.  Python floats are modelled as exact rationals, a record       *)
(* [k |-> "num", n, d] in lowest terms with d > 0; the IEEE values the     *)
(* code can produce are the records NaN and Inf; Python's None and a key   *)
(* missing from the info dict are the records None and Absent.  Rounding   *)
(* error of binary floating point is not modelled.                         *)
(***************************************************************************)
EXTENDS Integers, Sequences, FiniteSets, TLC

(***************************************************************************)
(* Bounds of the model.                                                    *)
(***************************************************************************)
MaxTerm == 3
MaxPoints == 3
MaxExtra == 1
TailLen == 3

(***************************************************************************)
(* Values.                                                                 *)
(***************************************************************************)
Abs(a) == IF a < 0 THEN -a ELSE a

RECURSIVE GCD(_, _)
GCD(a, b) == IF b = 0 THEN a ELSE GCD(b, a % b)

R(n, d) ==
  LET s == IF d < 0 THEN -1 ELSE 1
      g == GCD(Abs(n), Abs(d))
  IN  [k |-> "num", n |-> (s * n) \div g, d |-> (s * d) \div g]

Num(i) == [k |-> "num", n |-> i, d |-> 1]
Zero == Num(0)
NaN == [k |-> "nan", n |-> 0, d |-> 1]
Inf == [k |-> "inf", n |-> 0, d |-> 1]
None == [k |-> "none", n |-> 0, d |-> 1]
Absent == [k |-> "absent", n |-> 0, d |-> 1]

IsNum(x) == x.k = "num"

\* over the least common denominator, so that the products stay small
RAdd(x, y) ==
  LET g == GCD(x.d, y.d)
  IN  R(x.n * (y.d \div g) + y.n * (x.d \div g), (x.d \div g) * y.d)
RNeg(x) == [x EXCEPT !.n = -x.n]
RSub(x, y) == RAdd(x, RNeg(y))
\* cross-cancelled, so that the intermediate products stay small
RMul(x, y) ==
  LET g1 == GCD(Abs(x.n), y.d)
      g2 == GCD(Abs(y.n), x.d)
  IN  R((x.n \div g1) * (y.n \div g2), (x.d \div g2) * (y.d \div g1))
\* defined for y # 0 only
RDiv(x, y) == RMul(x, R(y.d, y.n))
RLt(x, y) ==
  LET g == GCD(x.d, y.d) IN x.n * (y.d \div g) < y.n * (x.d \div g)
RLe(x, y) ==
  LET g == GCD(x.d, y.d) IN x.n * (y.d \div g) <= y.n * (x.d \div g)
RGt(x, y) == RLt(y, x)

RECURSIVE RPow(_, _)
RPow(x, e) == IF e = 0 THEN Num(1) ELSE RMul(x, RPow(x, e - 1))

\* Python's round(x, ndigits) for a finite x, scale = 10^ndigits: to the
\* nearest multiple of 1/scale, a tie going to the even one.
Round(x, scale) ==
  LET a == x.n \div x.d
      r == x.n % x.d
      f == (r * scale) \div x.d
      rem == (r * scale) % x.d
      lo == a * scale + f
      up == IF 2 * rem > x.d THEN 1
            ELSE IF 2 * rem < x.d THEN 0
            ELSE IF lo % 2 = 0 THEN 0 ELSE 1
  IN  R(lo + up, scale)

\* round() of a float that may be nan: numpy and Python both return nan
RoundF(x, scale) == IF IsNum(x) THEN Round(x, scale) ELSE x

(***************************************************************************)
(* The info dict: a function from the keys the program reads to values;    *)
(* Absent stands for a missing key.                                        *)
(***************************************************************************)
Keys == {"regularMarketPrice", "dividendRate", "dividendYield",
         "beta", "fiftyTwoWeekHigh", "fiftyTwoWeekLow", "52WeekChange"}

\* dict.get(key, default)
Get(d, key, default) == IF d[key].k = "absent" THEN default ELSE d[key]

\* Python's  x or 0.0  for a number or None
OrZero(x) == IF x.k = "none" \/ (IsNum(x) /\ x.n = 0) THEN Zero ELSE x

VARIABLES
  op,             \* which entry point this run exercises
  pc,             \* position in the entry point's code
  exc,            \* the exception that ended the run, "none" if none
  info,           \* the fundamentals dict
  amount, term, drip, growth_rate,    \* compute_forecast's arguments
  price, div_rate, dy, shares, annual_div, growth_factor,
  i,              \* iterations of the DRIP loop done so far
  future_price, future_value, total_div,
  forecast,       \* the dict compute_forecast returns
  hist,           \* the price history: a sequence of [day, close] rows
  cagr,           \* the triple calculate_cagr returns
  risk,           \* the risk dict of the main output
  close, ma_50, ma_200,               \* the momentum block's locals
  avg_gain, avg_loss, rs,             \* compute_rsi's last-row values
  rsi, trend,
  momentum        \* the momentum dict of the main output

fcVars == <<info, amount, term, drip, growth_rate, price, div_rate, dy,
            shares, annual_div, growth_factor, i, future_price,
            future_value, total_div, forecast>>

histVars == <<hist, cagr>>

momVars == <<close, ma_50, ma_200, avg_gain, avg_loss, rs, rsi, trend,
             momentum>>

vars == <<op, pc, exc, fcVars, histVars, risk, momVars>>

(***************************************************************************)
(* compute_forecast                                                        *)
(***************************************************************************)
\* div_rate after the reconciliation of lines 58-59
DeriveRate(p, rate, yld) ==
  IF rate.n = 0 /\ RGt(yld, Zero) /\ RGt(p, Zero) THEN RMul(p, yld) ELSE rate

\* the reconciliation compares price with 0 only when the two tests before
\* it succeed (and short-circuits otherwise)
ReadsPrice(rate, yld) == rate.n = 0 /\ RGt(yld, Zero)

Shares0(amt, p) == IF RGt(p, Zero) THEN RDiv(amt, p) ELSE Zero

AnnualDiv(sh, rate) == RMul(sh, rate)

GrowthFactor(g) == RAdd(Num(1), RDiv(g, Num(100)))

\* the reinvested shares taken off the holding instead of added to it
DripStepSub(sh, rate, p) == RSub(sh, RDiv(RMul(sh, rate), p))

\* one pass of the DRIP loop body, for p # 0
DripStep(sh, rate, p) == RAdd(sh, RDiv(RMul(sh, rate), p))

FuturePrice(p, gf, t) == RMul(p, RPow(gf, t))

\* the share count left out of the asset value
FutureValueNoShares(sh, fp) == fp

FutureValue(sh, fp) == RMul(sh, fp)

\* one year's dividends reported as the term's
DripTotalDivOneYear(sh, rate, t) == RMul(sh, rate)

DripTotalDiv(sh, rate, t) == RMul(RMul(sh, rate), Num(t))

\* one year's dividends reported as the term's
NoDripTotalDivOneYear(ad, t) == ad

NoDripTotalDiv(ad, t) == RMul(ad, Num(t))

ForecastDict(p, rate, yld, sh, ad, g, fp, td, fv) ==
  [CurrentPrice           |-> Round(p, 100),
   DividendPerShare       |-> Round(rate, 100),
   DividendYieldPct       |-> Round(RMul(yld, Num(100)), 100),
   EstimatedShares        |-> Round(sh, 10000),
   AnnualDividendIncome   |-> Round(ad, 100),
   GrowthRateUsed         |-> Round(g, 100),
   FuturePriceEstimate    |-> Round(fp, 100),
   TotalDividendsOverTerm |-> Round(td, 100),
   ProjectedAssetValue    |-> Round(fv, 100)]

NoDict == [CurrentPrice |-> None, DividendPerShare |-> None,
           DividendYieldPct |-> None, EstimatedShares |-> None,
           AnnualDividendIncome |-> None, GrowthRateUsed |-> None,
           FuturePriceEstimate |-> None, TotalDividendsOverTerm |-> None,
           ProjectedAssetValue |-> None]

Raise(e) == pc' = "raised" /\ exc' = e

\* lines 55-59
ReadInfo ==
  /\ op = "forecast" /\ pc = "read"
  /\ LET p == Get(info, "regularMarketPrice", Zero)
         rate == OrZero(Get(info, "dividendRate", Zero))
         yld == OrZero(Get(info, "dividendYield", Zero))
     IN  /\ price' = p
         /\ dy' = yld
         /\ IF ReadsPrice(rate, yld) /\ ~IsNum(p)
            THEN Raise("TypeError") /\ div_rate' = rate
            ELSE /\ div_rate' = (IF IsNum(p) THEN DeriveRate(p, rate, yld) ELSE rate)
                 /\ pc' = "shares" /\ exc' = exc
  /\ UNCHANGED <<op, info, amount, term, drip, growth_rate, shares,
                 annual_div, growth_factor, i, future_price, future_value,
                 total_div, forecast, histVars, risk, momVars>>

\* lines 61-63, and the test of line 65
InitShares ==
  /\ op = "forecast" /\ pc = "shares"
  /\ IF ~IsNum(price)
     THEN Raise("TypeError") /\ UNCHANGED <<shares, annual_div, growth_factor>>
     ELSE /\ shares' = Shares0(amount, price)
          /\ annual_div' = AnnualDiv(shares', div_rate)
          /\ growth_factor' = GrowthFactor(growth_rate)
          /\ pc' = (IF drip THEN "loop" ELSE "nodrip")
          /\ exc' = exc
  /\ UNCHANGED <<op, info, amount, term, drip, growth_rate, price, div_rate,
                 dy, i, future_price, future_value, total_div, forecast, histVars, risk, momVars>>

\* lines 66-67: one iteration of  for _ in range(term)
DripIter ==
  /\ op = "forecast" /\ pc = "loop" /\ i < term
  /\ IF price.n = 0
     THEN Raise("ZeroDivisionError") /\ UNCHANGED <<shares, i>>
     ELSE /\ shares' = DripStep(shares, div_rate, price)
          /\ i' = i + 1
          /\ UNCHANGED <<pc, exc>>
  /\ UNCHANGED <<op, info, amount, term, drip, growth_rate, price, div_rate,
                 dy, annual_div, growth_factor, future_price, future_value,
                 total_div, forecast, histVars, risk, momVars>>

\* lines 68-70, once the loop is exhausted
DripProject ==
  /\ op = "forecast" /\ pc = "loop" /\ i = term
  /\ future_price' = FuturePrice(price, growth_factor, term)
  /\ future_value' = FutureValue(shares, future_price')
  /\ total_div' = DripTotalDiv(shares, div_rate, term)
  /\ pc' = "return"
  /\ UNCHANGED <<op, exc, info, amount, term, drip, growth_rate, price,
                 div_rate, dy, shares, annual_div, growth_factor, i, forecast,
                 histVars, risk, momVars>>

\* lines 72-74
NoDripProject ==
  /\ op = "forecast" /\ pc = "nodrip"
  /\ future_price' = FuturePrice(price, growth_factor, term)
  /\ future_value' = FutureValue(shares, future_price')
  /\ total_div' = NoDripTotalDiv(annual_div, term)
  /\ pc' = "return"
  /\ UNCHANGED <<op, exc, info, amount, term, drip, growth_rate, price,
                 div_rate, dy, shares, annual_div, growth_factor, i, forecast,
                 histVars, risk, momVars>>

\* lines 76-86
ReturnForecast ==
  /\ op = "forecast" /\ pc = "return"
  /\ forecast' = ForecastDict(price, div_rate, dy, shares, annual_div,
                              growth_rate, future_price, total_div,
                              future_value)
  /\ pc' = "done"
  /\ UNCHANGED <<op, exc, info, amount, term, drip, growth_rate, price,
                 div_rate, dy, shares, annual_div, growth_factor, i,
                 future_price, future_value, total_div, histVars, risk,
                 momVars>>

(***************************************************************************)
(* calculate_cagr                                                          *)
(***************************************************************************)
\* Series.dropna() on the Close column
Dropna(h) == SelectSeq(h, LAMBDA row : IsNum(row.close))

\* the q-th root of a rational x >= 0 whose root is rational
IRoot(m, q) == CHOOSE r \in 0..m : RPow(Num(r), q).n = m
Root(x, q) == R(IRoot(x.n, q), IRoot(x.d, q))

\* base ** (en/ed) for floats, en/ed in lowest terms, ed > 0: nan for a
\* negative base under a non-integer exponent
FloatPow(base, en, ed) ==
  IF ed = 1 THEN RPow(base, en)
  ELSE IF RLt(base, Zero) THEN NaN
  ELSE RPow(Root(base, ed), en)

\* the growth factor returned without taking 1 off
CagrFormulaNoMinusOne(start, end, days) ==
  LET g == GCD(365, days)
  IN  FloatPow(RDiv(end, start), 365 \div g, days \div g)

\* line 47 leaves years = days / 365, so 1 / years = 365 / days
CagrFormula(start, end, days) ==
  LET g == GCD(365, days)
      pw == FloatPow(RDiv(end, start), 365 \div g, days \div g)
  IN  IF IsNum(pw) THEN RSub(pw, Num(1)) ELSE NaN

TimesHundred(x) == IF IsNum(x) THEN RMul(x, Num(100)) ELSE x

calculate_cagr(h) ==
  LET cl == Dropna(h)
      start == cl[1].close
      end == cl[Len(cl)].close
      days == cl[Len(cl)].day - cl[1].day
  IN  IF Len(cl) < 2 THEN <<Zero, Zero, Zero>>
      ELSE IF RLe(start, Zero) \/ days <= 0 THEN <<Zero, start, end>>
      ELSE <<RoundF(TimesHundred(CagrFormula(start, end, days)), 100),
             Round(start, 100), Round(end, 100)>>

\* line 101
CallCagr ==
  /\ op = "cagr" /\ pc = "call"
  /\ cagr' = calculate_cagr(hist)
  /\ pc' = "done"
  /\ UNCHANGED <<op, exc, fcVars, hist, risk, momVars>>

(***************************************************************************)
(* The risk dict, lines 143-148                                            *)
(***************************************************************************)
RiskKeys == <<"beta", "fiftyTwoWeekHigh", "fiftyTwoWeekLow", "52WeekChange">>

\* round(None, 2) and None * 100 both raise TypeError
RiskRaises(d) == \E j \in 1..Len(RiskKeys) : Get(d, RiskKeys[j], Zero).k = "none"

RiskDict(d) ==
  [Beta     |-> Round(Get(d, "beta", Zero), 100),
   High52   |-> Round(Get(d, "fiftyTwoWeekHigh", Zero), 100),
   Low52    |-> Round(Get(d, "fiftyTwoWeekLow", Zero), 100),
   Change52 |-> Round(RMul(Get(d, "52WeekChange", Zero), Num(100)), 100)]

NoRisk == [Beta |-> None, High52 |-> None, Low52 |-> None, Change52 |-> None]

BuildRisk ==
  /\ op = "risk" /\ pc = "build"
  /\ IF RiskRaises(info)
     THEN Raise("TypeError") /\ risk' = risk
     ELSE risk' = RiskDict(info) /\ pc' = "done" /\ exc' = exc
  /\ UNCHANGED <<op, fcVars, histVars, momVars>>

(***************************************************************************)
(* compute_rsi and the momentum block                                      *)
(***************************************************************************)
MinPoints == 50
LongPoints == 200
Period == 14
Overbought == 70
Oversold == 30

\* the sum of sq[lo..hi], split in halves to keep the evaluation shallow
RECURSIVE SumRange(_, _, _)
SumRange(sq, lo, hi) ==
  IF lo > hi THEN Zero
  ELSE IF lo = hi THEN sq[lo]
  ELSE LET mid == (lo + hi) \div 2
       IN  RAdd(SumRange(sq, lo, mid), SumRange(sq, mid + 1, hi))

SumSeq(sq) == SumRange(sq, 1, Len(sq))

LastN(sq, n) == SubSeq(sq, Len(sq) - n + 1, Len(sq))

\* Series.rolling(n).mean().iloc[-1]: nan until the window is full
RollingMeanLast(sq, n) ==
  IF Len(sq) < n THEN NaN ELSE RDiv(SumSeq(LastN(sq, n)), Num(n))

\* series.diff().dropna()
Diff(sq) == [j \in 1..(Len(sq) - 1) |-> RSub(sq[j + 1], sq[j])]

Gain(delta) == [j \in 1..Len(delta) |->
                  IF RGt(delta[j], Zero) THEN delta[j] ELSE Zero]

Loss(delta) == [j \in 1..Len(delta) |->
                  IF RLt(delta[j], Zero) THEN RNeg(delta[j]) ELSE Zero]

\* float division of two Series values: x/0 is inf, 0/0 is nan, no exception
FloatDiv(x, y) ==
  IF ~IsNum(x) \/ ~IsNum(y) THEN NaN
  ELSE IF y.n # 0 THEN RDiv(x, y)
  ELSE IF x.n = 0 THEN NaN
  ELSE Inf

\* 100 - (100 / (1 + rs))
RsiValue(r) ==
  IF r.k = "nan" THEN NaN
  ELSE IF r.k = "inf" THEN Num(100)
  ELSE RSub(Num(100), RDiv(Num(100), RAdd(Num(1), r)))

\* every comparison with nan is False
Trend(r) ==
  IF IsNum(r) /\ RGt(r, Num(Overbought)) THEN "Overbought"
  ELSE IF IsNum(r) /\ RLt(r, Num(Oversold)) THEN "Oversold"
  ELSE "Neutral"

Closes(h) == [j \in 1..Len(h) |-> h[j].close]

NoMomentum == [CurrentPrice |-> None, MA50 |-> None, RSI14 |-> None,
               Trend |-> "none", MA200 |-> None]

\* lines 152-155 and 167-168
MomentumStart ==
  /\ op = "momentum" /\ pc = "start"
  /\ close' = Closes(Dropna(hist))
  /\ IF Len(close') >= MinPoints
     THEN /\ ma_50' = RollingMeanLast(close', MinPoints)
          /\ ma_200' = (IF Len(close') >= LongPoints
                        THEN RollingMeanLast(close', LongPoints) ELSE None)
          /\ pc' = "rsi"
     ELSE /\ pc' = "nodata"
          /\ UNCHANGED <<ma_50, ma_200>>
  /\ UNCHANGED <<op, exc, fcVars, histVars, risk, avg_gain, avg_loss, rs,
                 rsi, trend, momentum>>

\* line 156: compute_rsi(close), lines 89-96
ComputeRsi ==
  /\ op = "momentum" /\ pc = "rsi"
  /\ LET delta == Diff(close)
     IN  /\ avg_gain' = RollingMeanLast(Gain(delta), Period)
         /\ avg_loss' = RollingMeanLast(Loss(delta), Period)
         /\ rs' = FloatDiv(avg_gain', avg_loss')
         /\ rsi' = (IF Len(delta) > 0 THEN RsiValue(rs') ELSE Zero)
  /\ pc' = "classify"
  /\ UNCHANGED <<op, exc, fcVars, histVars, risk, close, ma_50, ma_200,
                 trend, momentum>>

\* lines 157-165
Classify ==
  /\ op = "momentum" /\ pc = "classify"
  /\ trend' = Trend(rsi)
  /\ momentum' = [CurrentPrice |-> Round(close[Len(close)], 100),
                  MA50 |-> Round(ma_50, 100),
                  RSI14 |-> RoundF(rsi, 100),
                  Trend |-> trend',
                  MA200 |-> (IF IsNum(ma_200) /\ ma_200.n # 0
                             THEN Round(ma_200, 100) ELSE None)]
  /\ pc' = "done"
  /\ UNCHANGED <<op, exc, fcVars, histVars, risk, close, ma_50, ma_200,
                 avg_gain, avg_loss, rs, rsi>>

(***************************************************************************)
(* The inputs the runs are drawn from.                                     *)
(***************************************************************************)
Prices == {Absent, None, Num(-100), Zero, Num(50), Num(100)}
Rates == {Absent, None, Zero, Num(4)}
Yields == {Absent, None, Zero, R(1, 25), R(1, 2)}
Amounts == {Zero, Num(1000)}
Growths == {Num(-50), Zero, Num(100)}

EmptyInfo == [key \in Keys |-> Absent]

\* the locals of compute_forecast before the call
FcIdle ==
  /\ price = Zero /\ div_rate = Zero /\ dy = Zero /\ shares = Zero
  /\ annual_div = Zero /\ growth_factor = Zero /\ i = 0
  /\ future_price = Zero /\ future_value = Zero /\ total_div = Zero
  /\ forecast = NoDict

MomIdle ==
  /\ close = <<>> /\ ma_50 = None /\ ma_200 = None /\ avg_gain = None
  /\ avg_loss = None /\ rs = None /\ rsi = None /\ trend = "none"
  /\ momentum = NoMomentum

NoArgs ==
  /\ amount = Zero /\ term = 0 /\ drip = FALSE /\ growth_rate = Zero

InitForecast ==
  /\ op = "forecast" /\ pc = "read" /\ exc = "none"
  /\ \E p \in Prices, rate \in Rates, yld \in Yields :
       info = [EmptyInfo EXCEPT !["regularMarketPrice"] = p,
                                !["dividendRate"] = rate,
                                !["dividendYield"] = yld]
  /\ amount \in Amounts
  /\ term \in 0..MaxTerm
  /\ drip \in BOOLEAN
  /\ growth_rate \in Growths
  /\ FcIdle /\ MomIdle
  /\ hist = <<>> /\ cagr = <<Zero, Zero, Zero>> /\ risk = NoRisk

\* histories for calculate_cagr: up to MaxPoints rows in time order, whole
\* days apart (two rows less than a day apart share a day number)
Days == {0, 365, 730}
CloseVals == {NaN, Num(-100), Zero, Num(100), Num(121)}
Rows == [day : Days, close : CloseVals]
Histories ==
  UNION {{h \in [1..n -> Rows] :
            \A j \in 1..(n - 1) : h[j].day <= h[j + 1].day} : n \in 0..MaxPoints}

InitCagr ==
  /\ op = "cagr" /\ pc = "call" /\ exc = "none"
  /\ hist \in Histories
  /\ info = EmptyInfo /\ NoArgs /\ FcIdle /\ MomIdle
  /\ cagr = <<Zero, Zero, Zero>> /\ risk = NoRisk

RiskVals == {Absent, None, R(617, 500), R(-1, 8)}

InitRisk ==
  /\ op = "risk" /\ pc = "build" /\ exc = "none"
  /\ \E b \in RiskVals, hi \in RiskVals, lo \in RiskVals, ch \in RiskVals :
       info = [EmptyInfo EXCEPT !["beta"] = b,
                                !["fiftyTwoWeekHigh"] = hi,
                                !["fiftyTwoWeekLow"] = lo,
                                !["52WeekChange"] = ch]
  /\ NoArgs /\ FcIdle /\ MomIdle
  /\ hist = <<>> /\ cagr = <<Zero, Zero, Zero>> /\ risk = NoRisk

\* histories for the momentum block: daily closes from a base close, moving by
\* the same step each day except over the last TailLen days, which move
\* freely; the first row may carry no close
BaseCloses == {100}
Steps == {-1, 0, 1}

RECURSIVE Walk(_, _, _)
Walk(c, day, steps) ==
  IF steps = <<>> THEN <<[day |-> day, close |-> Num(c)]>>
  ELSE <<[day |-> day, close |-> Num(c)]>>
         \o Walk(c + steps[1], day + 1, Tail(steps))

MomentumHistories ==
  {(IF lead THEN <<[day |-> 0, close |-> NaN]>> ELSE <<>>)
     \o Walk(c0, 1, [j \in 1..(n - 1) |->
                              IF j <= n - 1 - TailLen THEN d
                              ELSE tl[j - (n - 1 - TailLen)]])
   : c0 \in BaseCloses, n \in (MinPoints - 1)..(MinPoints + MaxExtra),
     d \in Steps, tl \in [1..TailLen -> Steps], lead \in BOOLEAN}

InitMomentum ==
  /\ op = "momentum" /\ pc = "start" /\ exc = "none"
  /\ hist \in MomentumHistories
  /\ info = EmptyInfo /\ NoArgs /\ FcIdle /\ MomIdle
  /\ cagr = <<Zero, Zero, Zero>> /\ risk = NoRisk

Init == InitForecast \/ InitCagr \/ InitRisk \/ InitMomentum

Next ==
  \/ ReadInfo
  \/ InitShares
  \/ DripIter
  \/ DripProject
  \/ NoDripProject
  \/ ReturnForecast
  \/ CallCagr
  \/ BuildRisk
  \/ MomentumStart
  \/ ComputeRsi
  \/ Classify

Spec == Init /\ [][Next]_vars

(***************************************************************************)
(* Properties.                                                             *)
(***************************************************************************)
\* the price compute_forecast reads from the info dict
InPrice == Get(info, "regularMarketPrice", Zero)
InRate == OrZero(Get(info, "dividendRate", Zero))
InYield == OrZero(Get(info, "dividendYield", Zero))
PositivePrice == IsNum(InPrice) /\ RGt(InPrice, Zero)

\* the ceiling the specification puts on a reported yield
YieldCap == R(1, 5)

\* C1: with price > 0 and non-negative rate and yield, the dividend yield the
\* forecast reports, as a fraction, lies in [0, YieldCap].
C1_YieldWithinCap ==
  (op = "forecast" /\ pc = "done" /\ PositivePrice)
    => LET y == RDiv(forecast.DividendYieldPct, Num(100))
       IN  RLe(Zero, y) /\ RLe(y, YieldCap)

\* C2: with price <= 0, compute_forecast never raises and reports
\* Estimated Shares = 0.
C2_NonPositivePriceNoError ==
  (op = "forecast" /\ IsNum(InPrice) /\ RLe(InPrice, Zero))
    => /\ exc = "none"
       /\ pc = "done" => forecast.EstimatedShares = Zero

\* C3: with price > 0 and rate >= 0, no step of the DRIP projection lowers
\* the share count, a reinvestment step with rate > 0 and shares > 0 raises
\* it, and without DRIP the share count stays amount / price.
C3_ShareCount ==
  [][(op = "forecast" /\ pc \in {"loop", "nodrip", "return"}
        /\ PositivePrice /\ RLe(Zero, div_rate))
      => IF drip
         THEN /\ RLe(shares, shares')
              /\ (i' = i + 1 /\ RGt(div_rate, Zero) /\ RGt(shares, Zero))
                   => RLt(shares, shares')
         ELSE shares = RDiv(amount, price) /\ shares' = shares]_vars

C3_Witness ==
  /\ op = "forecast" /\ drip /\ pc = "loop" /\ i = 2
  /\ PositivePrice /\ RGt(div_rate, Zero)
  /\ RGt(shares, RDiv(amount, price))

\* (amount / price) * (1 + rate / price)^n
DripShares(amt, p, rate, n) ==
  RMul(RDiv(amt, p), RPow(RAdd(Num(1), RDiv(rate, p)), n))

\* (1 + g / 100)^n
Compound(g, n) == RPow(RAdd(Num(1), RDiv(g, Num(100))), n)

IsExample(t) ==
  /\ price = Num(100) /\ amount = Num(1000) /\ div_rate = Num(4)
  /\ term = t /\ growth_rate = Zero

\* C4: in DRIP mode with price > 0 the projection makes exactly term
\* reinvestment steps, after k of them the share count is
\* (amount / price) * (1 + rate / price)^k; then projected asset value =
\* final shares * price * (1 + growth/100)^term and total dividends = final
\* shares * rate * term.  The example 100/1000/4/2/0 runs 10, 10.4, 10.816
\* and ends at 1081.6; a term of 0 leaves shares and price alone and pays 0.
C4_DripClosedForm ==
  (op = "forecast" /\ drip /\ PositivePrice
     /\ pc \in {"loop", "return", "done"})
    => /\ i <= term
       /\ shares = DripShares(amount, price, div_rate, i)
       /\ pc \in {"return", "done"} =>
            /\ i = term
            /\ future_value
                 = RMul(DripShares(amount, price, div_rate, term),
                        RMul(price, Compound(growth_rate, term)))
            /\ total_div
                 = RMul(DripShares(amount, price, div_rate, term),
                        RMul(div_rate, Num(term)))
            /\ term = 0 =>
                 /\ shares = RDiv(amount, price)
                 /\ future_price = price
                 /\ total_div = Zero
       /\ IsExample(2) =>
            /\ i = 0 => shares = Num(10)
            /\ i = 1 => shares = R(104, 10)
            /\ i = 2 => shares = R(10816, 1000)
            /\ pc = "done" =>
                 /\ forecast.EstimatedShares = R(10816, 1000)
                 /\ forecast.ProjectedAssetValue = R(10816, 10)

C4_Witness ==
  /\ op = "forecast" /\ drip /\ pc = "done" /\ IsExample(2) /\ i = 2
  /\ forecast.ProjectedAssetValue = R(10816, 10)

\* C5: without DRIP and with price > 0, annual dividend = shares0 * rate,
\* total dividends = annual dividend * term, future price = price *
\* (1 + growth/100)^term and projected asset value = shares0 * future price
\* for shares0 = amount / price, so the asset value carries no dividends.
\* The example 100/1000/4/1/0 gives 10, 40, 40, 100, 1000.
C5_NoDripFormulas ==
  (op = "forecast" /\ ~drip /\ PositivePrice /\ pc \in {"return", "done"})
    => LET shares0 == RDiv(amount, price)
       IN  /\ shares = shares0
           /\ annual_div = RMul(shares0, div_rate)
           /\ total_div = RMul(RMul(shares0, div_rate), Num(term))
           /\ future_price = RMul(price, Compound(growth_rate, term))
           /\ future_value
                = RMul(shares0, RMul(price, Compound(growth_rate, term)))
           /\ (IsExample(1) /\ pc = "done") =>
                /\ forecast.EstimatedShares = Num(10)
                /\ forecast.AnnualDividendIncome = Num(40)
                /\ forecast.TotalDividendsOverTerm = Num(40)
                /\ forecast.FuturePriceEstimate = Num(100)
                /\ forecast.ProjectedAssetValue = Num(1000)

C5_Witness ==
  /\ op = "forecast" /\ ~drip /\ pc = "done" /\ IsExample(1)
  /\ forecast.TotalDividendsOverTerm = Num(40)
  /\ forecast.ProjectedAssetValue = Num(1000)

\* C6: when dividendYield is absent or zero while dividendRate > 0 and
\* price > 0, the yield the forecast reports is dividendRate / price.
C6_YieldDerivedFromRate ==
  (op = "forecast" /\ pc = "done" /\ PositivePrice
     /\ InYield = Zero /\ RGt(InRate, Zero))
    => forecast.DividendYieldPct
         = Round(RMul(RDiv(InRate, InPrice), Num(100)), 100)

\* the rows calculate_cagr works on, and the whole days they span
CagrRows == Dropna(hist)
FirstClose == CagrRows[1].close
LastClose == CagrRows[Len(CagrRows)].close
SpanDays == CagrRows[Len(CagrRows)].day - CagrRows[1].day
Degenerate ==
  Len(CagrRows) < 2 \/ SpanDays <= 0 \/ RLe(FirstClose, Zero)

\* x = (last / first)^(365 / days), said without computing a root: x >= 0
\* and x^days = (last / first)^365, both sides reduced by gcd(365, days)
IsAnnualised(x, ratio, days) ==
  LET g == GCD(365, days)
  IN  /\ (days \div g) % 2 = 0 => RLe(Zero, x)
      /\ RPow(x, days \div g) = RPow(ratio, 365 \div g)

Candidates == {R(a, b) : a \in -121..121, b \in {1, 10, 11, 100, 121}}

\* C7: calculate_cagr returns a growth rate of 0 for a series of fewer than
\* 2 closes, or spanning no whole day, or opening at a close <= 0; otherwise
\* it returns (last/first)^(1/years) - 1 as a percent to 2 places, 21 for
\* 100 then 121 a year apart.  It never raises.
C7_Cagr ==
  (op = "cagr" /\ pc = "done")
    => /\ exc = "none"
       /\ Degenerate => cagr[1] = Zero
       /\ (~Degenerate /\ IsNum(cagr[1])) =>
            \E x \in Candidates :
              /\ IsAnnualised(x, RDiv(LastClose, FirstClose), SpanDays)
              /\ cagr[1] = Round(RMul(RSub(x, Num(1)), Num(100)), 100)
       /\ (~Degenerate /\ RLe(Zero, LastClose)) => IsNum(cagr[1])
       /\ (Len(CagrRows) = 2 /\ FirstClose = Num(100)
             /\ LastClose = Num(121) /\ SpanDays = 365)
            => cagr[1] = Num(21)

C7_Witness ==
  /\ op = "cagr" /\ pc = "done"
  /\ Len(hist) = 3 /\ Len(CagrRows) = 2
  /\ SpanDays = 0 /\ FirstClose = Num(100) /\ LastClose = Num(121)
  /\ cagr[1] = Zero

\* C8: for a series of at least 50 closes whose last 14-delta window has
\* average loss 0, the reported RSI is 100 and the trend is Overbought.
C8_ZeroLossIsOverbought ==
  (op = "momentum" /\ pc = "done" /\ Len(close) >= MinPoints
     /\ avg_loss = Zero)
    => /\ momentum.RSI14 = Num(100)
       /\ momentum.Trend = "Overbought"

\* the risk dict's entry for each key of the info dict
RiskField(key) ==
  IF key = "beta" THEN risk.Beta
  ELSE IF key = "fiftyTwoWeekHigh" THEN risk.High52
  ELSE IF key = "fiftyTwoWeekLow" THEN risk.Low52
  ELSE risk.Change52

\* C9: building the risk dict never fails; a field whose key is missing or
\* carries no value is reported as 0, a present one rounded.
C9_RiskNeverFails ==
  op = "risk"
    => /\ exc = "none"
       /\ pc = "done" =>
            \A j \in 1..Len(RiskKeys) :
              LET v == info[RiskKeys[j]]
              IN  IF ~IsNum(v) THEN RiskField(RiskKeys[j]) = Zero
                  ELSE RiskField(RiskKeys[j])
                         = Round(IF j = 4 THEN RMul(v, Num(100)) ELSE v, 100)

ZeroFields ==
  /\ forecast.EstimatedShares = Zero
  /\ forecast.AnnualDividendIncome = Zero
  /\ forecast.TotalDividendsOverTerm = Zero
  /\ forecast.ProjectedAssetValue = Zero

====
